---- MODULE Spec2Model ----
(***************************************************************************)
(* vanavar: an associative memory kept in an SQLite FTS5 table `entries`   *)
(* (content, uuid, created_at), with a two-way sync against a second       *)
(* database file.  The model follows src/vanavar.py function by function.  *)
(***************************************************************************)
EXTENDS Integers, Sequences, FiniteSets, TLC

(* ------------------------------ bounds --------------------------------- *)
\* number of uuid4() draws the model follows
MaxUuids == 2
\* longest file read by import_entries
MaxLines == 1
\* largest rowid the model lets a table reach (rowids grow without bound
\* when rows are deleted and copied back)
MaxRowid == 3

\* a search term has at most MaxTerm characters, a content searched at most MaxContent
MaxTerm == 3

MaxContent == 3

\* database files: the default DB_PATH of each of two users
Paths == {"A", "B"}

\* a remote_path that is no database sqlite can open (a directory, a path
\* through a missing directory, a file that is not a database)
BadPaths == {"X"}

\* every path sync can be given
Remotes == Paths \cup BadPaths

\* the instants datetime.now() may return
Times == {1, 2}

\* contents a caller of store and update_entry can pass: any str, the empty one included
AnyTexts == { <<>>, <<" ">>, <<"a">> }

\* texts a caller may pass, as sequences of characters: a blank one and a word
Texts == { <<" ">>, <<"a">> }

VARIABLES
    db,        \* db[p]: the file at path p: its schema and the committed rows of entries
    nextUuid,  \* the uuid4 values drawn so far are 1..nextUuid-1
    last,      \* the call that was made last, with its return value
    pend,      \* pend[p]: rows inserted through run_repl's connection to p, not committed
    handle     \* handle[r]: the connection a sync opened on r and left unclosed:
               \* "closed", "open", or "txn" when it holds uncommitted inserts

vars == <<db, nextUuid, last, pend, handle>>

(* ------------------------------ helpers -------------------------------- *)
SetMax(S) == CHOOSE x \in S : \A y \in S : y <= x

Rowids(rows) == { r.rowid : r \in rows }

\* the rowid SQLite gives the next inserted row: one more than the largest
NextRowid(rows) == IF rows = {} THEN 1 ELSE SetMax(Rowids(rows)) + 1

\* INSERT INTO entries (content, uuid, created_at) VALUES (?, ?, ?)
Insert(rows, content, uuid, created_at) ==
    rows \cup { [rowid |-> NextRowid(rows), uuid |-> uuid,
                 content |-> content, created_at |-> created_at] }

IsSpace(c) == c = " "

\* str.strip(): drop leading and trailing whitespace
RECURSIVE lstrip(_)
lstrip(s) == IF s # <<>> /\ IsSpace(Head(s)) THEN lstrip(Tail(s)) ELSE s

RECURSIVE rstrip(_)
rstrip(s) ==
    IF s # <<>> /\ IsSpace(s[Len(s)]) THEN rstrip(SubSeq(s, 1, Len(s) - 1)) ELSE s

strip(s) == rstrip(lstrip(s))

\* all orders in which a set can be iterated
Orders(S) ==
    { s \in [1..Cardinality(S) -> S] :
        \A i, j \in 1..Cardinality(S) : i # j => s[i] # s[j] }

\* the record kept of a call: its arguments, its return value, what it raised;
\* prior: what the same sync returned when it was the call just before;
\* gone: the uuids a delete removed;
\* back: the uuids the delete just before removed and this sync copied back;
\* at: the step at which a sync raised; done: the uuids whose INSERT into
\* remote, and into local, had been executed when it raised
Call(op, p, q, rowid, text, ret, raised) ==
    [op |-> op, p |-> p, q |-> q, rowid |-> rowid, text |-> text,
     ret |-> ret, raised |-> raised, prior |-> <<>>, gone |-> {}, back |-> {},
     at |-> "", done |-> <<{}, {}>>]

\* a call that returns None
None == <<>>

\* the ids a set of rows holds
Uuids(rows) == { r.uuid : r \in rows }

\* what run_repl's connection to p reads: the committed rows and its own
\* uncommitted ones
View(p) == db[p].rows \cup pend[p]

\* no connection left behind by a sync holds the write lock of p
Unlocked(p) == handle[p] # "txn"

(* ------------------------------- init_db ------------------------------- *)
\* sqlite3.connect(db_path) and the first SELECT of init_db: "ok", or the
\* exception raised
connect_any(d) == "ok"

connect(d) == IF d.schema = "bad" THEN "OperationalError" ELSE "ok"

\* a migration that gives every old row the same uuid and keeps its rowid
Migrate_one_uuid(old, rows, next) ==
    rows \cup { [rowid |-> r.rowid, content |-> r.content, uuid |-> next,
                 created_at |-> r.created_at] : r \in old }

\* the rows of a migrated table: old rows re-inserted in order with fresh uuids
RECURSIVE Migrate(_, _, _)
Migrate(old, rows, next) ==
    IF old = {} THEN rows
    ELSE LET r == CHOOSE x \in old : \A y \in old : x.rowid <= y.rowid
         IN  Migrate(old \ {r}, Insert(rows, r.content, next, r.created_at), next + 1)

\* an init_db whose column check misses the uuid column: every open migrates
init_db_always_migrates(d, next) ==
    IF d.schema = "none" THEN [schema |-> "uuid", rows |-> {}]
    ELSE [schema |-> "uuid", rows |-> Migrate(d.rows, {}, next)]

\* init_db(db_path): the file after the call
init_db(d, next) ==
    IF d.schema = "uuid" THEN d
    ELSE IF d.schema = "legacy"
         THEN [schema |-> "uuid", rows |-> Migrate(d.rows, {}, next)]
         ELSE [schema |-> "uuid", rows |-> {}]

\* the uuid4 counter after init_db(db_path)
init_db_next(d, next) ==
    IF d.schema = "legacy" THEN next + Cardinality(d.rows) ELSE next

(* -------------------------------- store -------------------------------- *)
\* a store whose uuid was drawn once, when the function was defined
store_one_uuid(rows, text, uuid, now) == Insert(rows, text, 1, now)

\* store(conn, text): one row with a new uuid and the current time
store(rows, text, uuid, now) == Insert(rows, text, uuid, now)

count(rows) == Cardinality(rows)

(* --------------------------------- find -------------------------------- *)
\* an escaping that embeds the term as it is
escaped_not(term) == term

\* escaped = term.replace('"', '""')
RECURSIVE escaped(_)
escaped(term) ==
    IF term = <<>> THEN <<>>
    ELSE (IF Head(term) = "\"" THEN <<"\"", "\"">> ELSE <<Head(term)>>)
         \o escaped(Tail(term))

\* term.endswith('$')
endswith_dollar(term) == term # <<>> /\ term[Len(term)] = "$"

\* s.rstrip("$"): s without all the "$" at its end
RECURSIVE rstrip_dollar(_)
rstrip_dollar(s) ==
    IF endswith_dollar(s) THEN rstrip_dollar(SubSeq(s, 1, Len(s) - 1)) ELSE s

\* a translation that makes every term a prefix phrase
part_always_prefix(t, prefix) ==
    <<"\"">> \o rstrip_dollar(escaped(t)) \o <<"\"", "*">>

\* the phrase find and find_all build for one term
part(t, prefix) ==
    IF prefix /\ ~endswith_dollar(t)
    THEN <<"\"">> \o escaped(t) \o <<"\"", "*">>
    ELSE <<"\"">> \o rstrip_dollar(escaped(t)) \o <<"\"">>

\* query of find(conn, term, prefix)
find_query(term, prefix) == part(term, prefix)

\* query of find_all(conn, terms, prefix): ' '.join(parts)
RECURSIVE find_all_query(_, _)
find_all_query(terms, prefix) ==
    IF terms = <<>> THEN <<>>
    ELSE IF Len(terms) = 1 THEN part(terms[1], prefix)
    ELSE part(terms[1], prefix) \o <<" ">> \o find_all_query(Tail(terms), prefix)

\* the FTS5 reading of a query made of quoted strings: each string, with ""
\* read as one quote character, is a phrase, a * after it makes it a prefix
\* phrase, a space separates phrases; anything else is a syntax error
RECURSIVE Fts5Scan(_, _, _, _, _)
Fts5Scan(q, i, mode, txt, out) ==
    IF i > Len(q)
    THEN [ok |-> mode \in {"after", "star"}, phrases |-> out]
    ELSE IF mode = "start"
    THEN IF q[i] = "\"" THEN Fts5Scan(q, i + 1, "in", <<>>, out)
         ELSE [ok |-> FALSE, phrases |-> out]
    ELSE IF mode = "in"
    THEN IF q[i] # "\"" THEN Fts5Scan(q, i + 1, "in", Append(txt, q[i]), out)
         ELSE IF i < Len(q) /\ q[i + 1] = "\""
              THEN Fts5Scan(q, i + 2, "in", Append(txt, "\""), out)
              ELSE Fts5Scan(q, i + 1, "after", <<>>,
                            Append(out, [text |-> txt, prefix |-> FALSE]))
    ELSE IF mode = "after" /\ q[i] = "*"
    THEN Fts5Scan(q, i + 1, "star", <<>>,
                  [out EXCEPT ![Len(out)].prefix = TRUE])
    ELSE IF q[i] = " " THEN Fts5Scan(q, i + 1, "start", <<>>, out)
    ELSE [ok |-> FALSE, phrases |-> out]

Fts5Parse(q) == Fts5Scan(q, 1, "start", <<>>, <<>>)

\* the characters the FTS5 tokenizer keeps, and their case-folded form
IsAlnum(c) == c \in {"a", "b", "A"}

Fold(c) == IF c = "A" THEN "a" ELSE c

\* the FTS5 tokens of a text: its maximal runs of letters and digits, case-folded
RECURSIVE Tokenize(_, _, _)
Tokenize(s, cur, out) ==
    IF s = <<>> THEN (IF cur = <<>> THEN out ELSE Append(out, cur))
    ELSE IF IsAlnum(Head(s)) THEN Tokenize(Tail(s), Append(cur, Fold(Head(s))), out)
    ELSE Tokenize(Tail(s), <<>>, IF cur = <<>> THEN out ELSE Append(out, cur))

Tokens(s) == Tokenize(s, <<>>, <<>>)

IsPrefix(a, b) == Len(a) <= Len(b) /\ SubSeq(b, 1, Len(a)) = a

\* the tokens pt of a phrase occur in a row at consecutive positions of the
\* tokens ct of a content, the last of them as a prefix when the phrase is a
\* prefix phrase
PhraseMatches(ct, pt, prefix) ==
    \E i \in 0..(Len(ct) - Len(pt)) :
        /\ \A j \in 1..(Len(pt) - 1) : ct[i + j] = pt[j]
        /\ IF prefix THEN IsPrefix(pt[Len(pt)], ct[i + Len(pt)])
                     ELSE ct[i + Len(pt)] = pt[Len(pt)]

\* entries MATCH query, for a well-formed query: the phrases that hold a
\* token all match; phrases without a token are dropped, and a query left
\* without a phrase matches nothing
MATCH(content, query) ==
    LET phrases == Fts5Parse(query).phrases
        live == { k \in 1..Len(phrases) : Tokens(phrases[k].text) # <<>> }
    IN  /\ live # {}
        /\ \A k \in live :
              PhraseMatches(Tokens(content), Tokens(phrases[k].text), phrases[k].prefix)

\* find(conn, term, prefix): the (rowid, content) of the matching rows
find(rows, term, prefix) ==
    { <<r.rowid, r.content>> : r \in { x \in rows : MATCH(x.content, find_query(term, prefix)) } }

\* find_all(conn, terms, prefix)
find_all(rows, terms, prefix) ==
    { <<r.rowid, r.content>> : r \in { x \in rows : MATCH(x.content, find_all_query(terms, prefix)) } }

(* ---------------------------- point updates ---------------------------- *)
\* delete_by_id(conn, rowid): DELETE FROM entries WHERE rowid = ?
delete_by_id(rows, rowid) == { r \in rows : r.rowid # rowid }

\* an UPDATE that lost its WHERE clause
update_entry_all(rows, rowid, new_content) ==
    { [r EXCEPT !.content = new_content] : r \in rows }

\* update_entry(conn, rowid, new_content): UPDATE entries SET content = ? WHERE rowid = ?
update_entry(rows, rowid, new_content) ==
    { IF r.rowid = rowid THEN [r EXCEPT !.content = new_content] ELSE r : r \in rows }

(* ---------------------------- import_entries --------------------------- *)
\* the lines of a file that import_entries stores: stripped, empty ones dropped
RECURSIVE Stored(_)
Stored(lines) ==
    IF lines = <<>> THEN <<>>
    ELSE LET line == strip(Head(lines))
         IN  IF line # <<>> THEN <<line>> \o Stored(Tail(lines))
             ELSE Stored(Tail(lines))

\* import_entries(conn, filepath): store() every kept line; nows[i] is the
\* time of the i-th store and next the uuid it draws
RECURSIVE import_entries(_, _, _, _)
import_entries(rows, kept, next, nows) ==
    IF kept = <<>> THEN rows
    ELSE import_entries(store(rows, Head(kept), next, Head(nows)),
                        Tail(kept), next + 1, Tail(nows))

(* --------------------------------- sync -------------------------------- *)
\* {row[0]: (row[1], row[2]) for row in cur.fetchall()}: a later row of the
\* same uuid replaces an earlier one
Snapshot(rows) ==
    [u \in Uuids(rows) |->
        LET r == CHOOSE x \in rows :
                    /\ x.uuid = u
                    /\ \A y \in rows : y.uuid = u => y.rowid <= x.rowid
        IN  <<r.content, r.created_at>>]

\* a push of the ids both sides hold instead of the ids remote lacks
to_push_common(local_entries, remote_entries) ==
    DOMAIN local_entries \cap DOMAIN remote_entries

\* a push of every local id, held by remote or not
to_push_all(local_entries, remote_entries) == DOMAIN local_entries

\* to_push = local_uuids - remote_uuids
to_push(local_entries, remote_entries) ==
    DOMAIN local_entries \ DOMAIN remote_entries

\* a sync that only pushes
to_pull_none(local_entries, remote_entries) == {}

\* a pull of every remote id, held by local or not
to_pull_all(local_entries, remote_entries) == DOMAIN remote_entries

\* to_pull = remote_uuids - local_uuids
to_pull(local_entries, remote_entries) ==
    DOMAIN remote_entries \ DOMAIN local_entries

\* a copy given an id of its own instead of the id of its source
copy_new_id(rows, entries, uuid) ==
    Insert(rows, entries[uuid][1], uuid + MaxUuids, entries[uuid][2])

\* a copy inserted the way store() inserts: stamped with the time of the copy
copy_stamped(rows, entries, uuid) == Insert(rows, entries[uuid][1], uuid, SetMax(Times))

\* the row sync inserts for uuid: the content and created_at of the snapshot
copy(rows, entries, uuid) == Insert(rows, entries[uuid][1], uuid, entries[uuid][2])

\* for uuid in order: INSERT the entry of the snapshot
RECURSIVE CopyAll(_, _, _)
CopyAll(rows, entries, order) ==
    IF order = <<>> THEN rows
    ELSE CopyAll(copy(rows, entries, Head(order)), entries, Tail(order))

\* every rowid stays within the model's bound
Fits(rows) == \A r \in rows : r.rowid <= MaxRowid

(* ------------------------------- actions ------------------------------- *)
Init ==
    /\ db = [p \in Remotes |-> [schema |-> IF p \in BadPaths THEN "bad" ELSE "none",
                                 rows |-> {}]]
    /\ nextUuid = 1
    /\ last = Call("start", "A", "A", 0, <<>>, None, "none")
    /\ pend = [p \in Remotes |-> {}]
    /\ handle = [p \in Remotes |-> "closed"]

\* run_repl() opens its database: conn = init_db(); on a database that has
\* the uuid column init_db changes nothing
Open(p) ==
    /\ db[p].schema # "uuid"
    /\ init_db_next(db[p], nextUuid) <= MaxUuids + 1
    /\ db' = [db EXCEPT ![p] = init_db(db[p], nextUuid)]
    /\ nextUuid' = init_db_next(db[p], nextUuid)
    /\ last' = Call("init_db", p, p, 0, <<>>, None, "none")
    /\ UNCHANGED <<pend, handle>>

\* store(conn, text) called on an open database
Store(p, text, now) ==
    /\ db[p].schema = "uuid"
    /\ Unlocked(p)
    /\ nextUuid <= MaxUuids
    /\ Fits(store(View(p), text, nextUuid, now))
    /\ db' = [db EXCEPT ![p].rows = store(View(p), text, nextUuid, now)]
    /\ pend' = [pend EXCEPT ![p] = {}]
    /\ nextUuid' = nextUuid + 1
    /\ last' = Call("store", p, p, 0, text, None, "none")
    /\ UNCHANGED handle

\* run_repl(): a line that is no command is stripped, skipped when empty
\* and stored otherwise
ReplLine(p, line, now) ==
    /\ db[p].schema = "uuid"
    /\ LET text == strip(line)
       IN  IF text = <<>>
           THEN UNCHANGED <<db, nextUuid, pend>>
           ELSE /\ Unlocked(p)
                /\ nextUuid <= MaxUuids
                /\ Fits(store(View(p), text, nextUuid, now))
                /\ db' = [db EXCEPT ![p].rows = store(View(p), text, nextUuid, now)]
                /\ pend' = [pend EXCEPT ![p] = {}]
                /\ nextUuid' = nextUuid + 1
    /\ last' = Call("repl", p, p, 0, line, None, "none")
    /\ UNCHANGED handle

\* delete_by_id(conn, rowid)
Delete(p, rowid) ==
    /\ db[p].schema = "uuid"
    /\ Unlocked(p)
    /\ db' = [db EXCEPT ![p].rows = delete_by_id(View(p), rowid)]
    /\ pend' = [pend EXCEPT ![p] = {}]
    /\ last' = [Call("delete_by_id", p, p, rowid, <<>>, None, "none")
                   EXCEPT !.gone = Uuids(View(p)) \ Uuids(delete_by_id(View(p), rowid))]
    /\ UNCHANGED <<nextUuid, handle>>

\* update_entry(conn, rowid, new_content)
Update(p, rowid, new_content) ==
    /\ db[p].schema = "uuid"
    /\ Unlocked(p)
    /\ db' = [db EXCEPT ![p].rows = update_entry(View(p), rowid, new_content)]
    /\ pend' = [pend EXCEPT ![p] = {}]
    /\ last' = Call("update_entry", p, p, rowid, new_content, None, "none")
    /\ UNCHANGED <<nextUuid, handle>>

\* import_entries(conn, filepath) on a file holding `lines`
Import(p, lines, nows) ==
    /\ db[p].schema = "uuid"
    /\ LET kept == Stored(lines)
           rows == import_entries(View(p), kept, nextUuid, nows)
       IN  /\ nextUuid + Len(kept) - 1 <= MaxUuids
           /\ Fits(rows)
           /\ IF kept = <<>>
              THEN UNCHANGED <<db, pend>>
              ELSE /\ Unlocked(p)
                   /\ db' = [db EXCEPT ![p].rows = rows]
                   /\ pend' = [pend EXCEPT ![p] = {}]
           /\ nextUuid' = nextUuid + Len(kept)
           /\ last' = Call("import_entries", p, p, 0, <<>>, <<Len(kept)>>, "none")
    /\ UNCHANGED handle

\* import_entries(conn, filepath) on a path that is no file: open() raises
ImportMissing(p) ==
    /\ db[p].schema = "uuid"
    /\ last' = Call("import_entries", p, p, 0, <<>>, None, "FileNotFoundError")
    /\ UNCHANGED <<db, nextUuid, pend, handle>>

\* remote_conn.commit() after the push loop: the committed rows of remote
\* become the rows remote_conn sees
commit_nothing(committed, seen) == committed

commit(committed, seen) == seen

\* sync(local_conn, remote_path) returning: l is the open local database, r
\* the remote path.  remote_conn can write only while no other connection
\* holds uncommitted inserts on r, local_conn only while none holds them on l.
Sync(l, r) ==
    /\ db[l].schema = "uuid"
    /\ connect(db[r]) = "ok"
    /\ init_db_next(db[r], nextUuid) <= MaxUuids + 1
    /\ LET remote0 == init_db(db[r], nextUuid)
           opened == [db EXCEPT ![r] = remote0]
           local_entries == Snapshot(View(l))
           remote_entries == Snapshot(opened[r].rows)
           push == to_push(local_entries, remote_entries)
           pull == to_pull(local_entries, remote_entries)
       IN  \E po \in Orders(push), qo \in Orders(pull) :
             LET pushed == [opened EXCEPT ![r].rows =
                               commit(@, CopyAll(@, local_entries, po))]
                 pulled == [pushed EXCEPT ![l].rows =
                               CopyAll(@ \cup pend[l], remote_entries, qo)]
             IN  /\ push # {} => (pend[r] = {} /\ Unlocked(r))
                 /\ (pull # {} \/ pend[l] # {}) => Unlocked(l)
                 /\ Fits(pulled[l].rows) /\ Fits(pulled[r].rows)
                 /\ db' = pulled
                 /\ pend' = [pend EXCEPT ![l] = {}]
                 /\ UNCHANGED handle
                 /\ nextUuid' = init_db_next(db[r], nextUuid)
                 /\ last' = [Call("sync", l, r, 0, <<>>,
                                  <<Cardinality(push), Cardinality(pull)>>, "none")
                       EXCEPT !.prior = IF last.op = "sync" /\ last.p = l /\ last.q = r
                                        THEN last.ret ELSE None,
                              !.back = IF last.op = "delete_by_id" /\ last.p \in {l, r}
                                       THEN last.gone \cap Uuids(pulled[last.p].rows)
                                       ELSE {}]

\* the state of the connection a failed sync leaves on r, given the one an
\* earlier failed sync left there
Leak(h, new) == IF h = "txn" \/ new = "txn" THEN "txn" ELSE "open"

\* sync raising in sqlite3.connect or in init_db's first SELECT: remote_path
\* is no database
SyncOpenFails(l, r) ==
    /\ db[l].schema = "uuid"
    /\ connect(db[r]) # "ok"
    /\ last' = [Call("sync", l, r, 0, <<>>, None, connect(db[r])) EXCEPT !.at = "open"]
    /\ UNCHANGED <<db, nextUuid, pend, handle>>

\* sync raising in the push loop after k of its INSERTs, or, when k is all of
\* them, in remote_conn.commit(): the inserts are in remote_conn's open
\* transaction, remote_conn.close() is not reached
SyncPushFails(l, r) ==
    /\ db[l].schema = "uuid"
    /\ connect(db[r]) = "ok"
    /\ LET remote0 == init_db(db[r], nextUuid)
           opened == [db EXCEPT ![r] = remote0]
           local_entries == Snapshot(View(l))
           remote_entries == Snapshot(opened[r].rows)
           push == to_push(local_entries, remote_entries)
       IN  /\ push # {}
           /\ \E po \in Orders(push), k \in 0..Cardinality(push) :
                 /\ db' = opened
                 /\ handle' = [handle EXCEPT ![r] =
                                  Leak(@, IF k = 0 THEN "open" ELSE "txn")]
                 /\ last' = [Call("sync", l, r, 0, <<>>, None, "OperationalError")
                               EXCEPT !.at = "push",
                                      !.done = <<{ po[i] : i \in 1..k }, {}>>]
    /\ nextUuid' = init_db_next(db[r], nextUuid)
    /\ UNCHANGED pend

\* sync raising in the pull loop after k of its INSERTs, or, when k is all of
\* them, in local_conn.commit(): the push is committed, the k inserts are in
\* local_conn's open transaction, remote_conn.close() is not reached
SyncPullFails(l, r) ==
    /\ db[l].schema = "uuid"
    /\ connect(db[r]) = "ok"
    /\ LET remote0 == init_db(db[r], nextUuid)
           opened == [db EXCEPT ![r] = remote0]
           local_entries == Snapshot(View(l))
           remote_entries == Snapshot(opened[r].rows)
           push == to_push(local_entries, remote_entries)
           pull == to_pull(local_entries, remote_entries)
       IN  /\ pull # {}
           /\ push # {} => (pend[r] = {} /\ Unlocked(r))
           /\ \E po \in Orders(push), qo \in Orders(pull), k \in 0..Cardinality(pull) :
                 LET pushed == [opened EXCEPT ![r].rows =
                                   commit(@, CopyAll(@, local_entries, po))]
                     seen == CopyAll(View(l), remote_entries, SubSeq(qo, 1, k))
                 IN  /\ Fits(pushed[r].rows) /\ Fits(seen)
                     /\ db' = pushed
                     /\ pend' = [pend EXCEPT ![l] = seen \ db[l].rows]
                     /\ handle' = [handle EXCEPT ![r] = Leak(@, "open")]
                     /\ last' = [Call("sync", l, r, 0, <<>>, None, "OperationalError")
                                   EXCEPT !.at = "pull",
                                          !.done = <<push, { qo[i] : i \in 1..k }>>]
    /\ nextUuid' = init_db_next(db[r], nextUuid)

\* quit: run_repl closes its connection, whose uncommitted inserts are rolled back
Quit(p) ==
    /\ db[p].schema = "uuid"
    /\ pend[p] # {}
    /\ pend' = [pend EXCEPT ![p] = {}]
    /\ last' = Call("quit", p, p, 0, <<>>, None, "none")
    /\ UNCHANGED <<db, nextUuid, handle>>

\* the garbage collector reclaims the connection a failed sync left on r:
\* it is closed and its uncommitted inserts are rolled back
Finalize(r) ==
    /\ handle[r] # "closed"
    /\ handle' = [handle EXCEPT ![r] = "closed"]
    /\ last' = Call("finalize", r, r, 0, <<>>, None, "none")
    /\ UNCHANGED <<db, nextUuid, pend>>

Next ==
    \/ \E p \in Paths : Open(p)
    \/ \E p \in Paths, text \in Texts, now \in Times : Store(p, text, now)
    \/ \E p \in Paths, line \in Texts, now \in Times : ReplLine(p, line, now)
    \/ \E p \in Paths, rowid \in 1..MaxRowid : Delete(p, rowid)
    \/ \E p \in Paths, rowid \in 1..MaxRowid, text \in Texts : Update(p, rowid, text)
    \/ \E p \in Paths, n \in 0..MaxLines :
         \E lines \in [1..n -> Texts], nows \in [1..n -> Times] :
            Import(p, lines, nows)
    \/ \E p \in Paths : ImportMissing(p)
    \/ \E l \in Paths, r \in Paths : Sync(l, r)

Spec == Init /\ [][Next]_vars

\* the program in an environment where a statement of sync can raise
NextFail ==
    \/ \E p \in Paths : Open(p)
    \/ \E p \in Paths, text \in Texts : Store(p, text, 1)
    \/ \E p \in Paths, rowid \in 1..MaxRowid : Delete(p, rowid)
    \/ \E l \in Paths, r \in Remotes : Sync(l, r)
    \/ \E l \in Paths, r \in Remotes : SyncOpenFails(l, r)
    \/ \E l \in Paths, r \in Paths : SyncPushFails(l, r)
    \/ \E l \in Paths, r \in Paths : SyncPullFails(l, r)
    \/ \E p \in Paths : Quit(p)
    \/ \E r \in Paths : Finalize(r)

SpecFail == Init /\ [][NextFail]_vars

\* the tables a database written by a version without the uuid column can
\* hold: rows of content and created_at, at any rowids (uuid 0: no such column)
LegacyTables ==
    UNION { { { [rowid |-> i, content |-> c[i], uuid |-> 0, created_at |-> t[i]] : i \in S }
              : c \in [S -> Texts], t \in [S -> Times] }
            : S \in { T \in SUBSET (1..MaxRowid) : Cardinality(T) <= MaxUuids } }

\* the files found on a machine where earlier versions have run
InitLegacy ==
    /\ db \in [Remotes -> [schema : {"none", "legacy", "bad"}, rows : LegacyTables]]
    /\ \A p \in Remotes :
          /\ db[p].schema = "bad" <=> p \in BadPaths
          /\ db[p].schema # "legacy" => db[p].rows = {}
    /\ nextUuid = 1
    /\ last = Call("start", "A", "A", 0, <<>>, None, "none")
    /\ pend = [p \in Remotes |-> {}]
    /\ handle = [p \in Remotes |-> "closed"]

\* run_repl() started again on a database that has the uuid column
Reopen(p) ==
    /\ db[p].schema = "uuid"
    /\ pend[p] = {}
    /\ db' = [db EXCEPT ![p] = init_db(db[p], nextUuid)]
    /\ nextUuid' = init_db_next(db[p], nextUuid)
    /\ last' = Call("init_db", p, p, 0, <<>>, None, "none")
    /\ UNCHANGED <<pend, handle>>

NextLegacy ==
    \/ \E p \in Paths : Open(p)
    \/ \E p \in Paths : Reopen(p)
    \/ \E p \in Paths, text \in Texts : Store(p, text, 1)
    \/ \E l \in Paths, r \in Paths : Sync(l, r)

SpecLegacy == InitLegacy /\ [][NextLegacy]_vars

\* characters of a search term, and of a stored content
TermChars == {"a", "b", "A", "$", "\"", " "}

ContentChars == {"a", "b", "A", " "}

Strings(chars, n) == UNION { [1..k -> chars] : k \in 0..n }

\* the argument of a find: one term; of a find_all: two terms
FindInputs ==
    { <<t>> : t \in Strings(TermChars, MaxTerm) }
    \cup { <<t1, t2>> : t1, t2 \in Strings(TermChars \ {"A", " "}, MaxTerm - 1) }

\* a database holding one entry, and the terms of the search to come
InitFind ==
    /\ \E content \in Strings(ContentChars, MaxContent) :
          db = [p \in Remotes |->
                  IF p = "A" THEN [schema |-> "uuid", rows |-> Insert({}, content, 1, 1)]
                  ELSE [schema |-> IF p \in BadPaths THEN "bad" ELSE "none", rows |-> {}]]
    /\ nextUuid = 2
    /\ \E terms \in FindInputs : last = Call("start", "A", "A", 0, terms, None, "none")
    /\ pend = [p \in Remotes |-> {}]
    /\ handle = [p \in Remotes |-> "closed"]

\* find(conn, term) on the terms chosen
Find(p) ==
    /\ db[p].schema = "uuid"
    /\ last.op = "start" /\ Len(last.text) = 1
    /\ last' = IF Fts5Parse(find_query(last.text[1], TRUE)).ok
               THEN Call("find", p, p, 0, last.text, find(View(p), last.text[1], TRUE), "none")
               ELSE Call("find", p, p, 0, last.text, None, "OperationalError")
    /\ UNCHANGED <<db, nextUuid, pend, handle>>

\* find_all(conn, terms) on the terms chosen
FindAll(p) ==
    /\ db[p].schema = "uuid"
    /\ last.op = "start" /\ Len(last.text) > 1
    /\ last' = IF Fts5Parse(find_all_query(last.text, TRUE)).ok
               THEN Call("find_all", p, p, 0, last.text, find_all(View(p), last.text, TRUE), "none")
               ELSE Call("find_all", p, p, 0, last.text, None, "OperationalError")
    /\ UNCHANGED <<db, nextUuid, pend, handle>>

NextFind ==
    \/ \E p \in Paths : Find(p)
    \/ \E p \in Paths : FindAll(p)

SpecFind == InitFind /\ [][NextFind]_vars

\* the functions of the module called directly, with any content
NextAny ==
    \/ \E p \in Paths : Open(p)
    \/ \E p \in Paths, text \in AnyTexts : Store(p, text, 1)
    \/ \E p \in Paths, rowid \in 1..MaxRowid, text \in AnyTexts : Update(p, rowid, text)
    \/ \E p \in Paths, n \in 0..MaxLines :
         \E lines \in [1..n -> Texts] : Import(p, lines, [i \in 1..n |-> 1])
    \/ \E l \in Paths, r \in Paths : Sync(l, r)

SpecAny == Init /\ [][NextAny]_vars

(* ------------------------------- claims -------------------------------- *)
\* (uuid, content, created_at) of every row: an entry without its local handle
Entries(rows) == { <<r.uuid, r.content, r.created_at>> : r \in rows }

\* no two rows of the table share a uuid
UniqueIds(rows) == \A r1, r2 \in rows : r1.uuid = r2.uuid => r1 = r2

\* C1: when sync(local, remote) completes, local and remote each hold exactly
\* the union of the ids the two held just before the call, each id once.
C1_SyncUnion ==
    [][last'.op = "sync" =>
        LET l == last'.p
            r == last'.q
            union == Uuids(db[l].rows) \cup Uuids(db[r].rows)
        IN  /\ Uuids(db'[l].rows) = union
            /\ Uuids(db'[r].rows) = union
            /\ UniqueIds(db'[l].rows)
            /\ UniqueIds(db'[r].rows)]_vars

\* a sync that pushed one entry and pulled another has completed
C1_Witness ==
    /\ last.op = "sync"
    /\ last.ret = <<1, 1>>
    /\ Cardinality(Uuids(db[last.p].rows)) = 2
    /\ Uuids(db[last.p].rows) = Uuids(db[last.q].rows)

\* C2: sync returns (pushed, pulled): the number of ids local held and remote
\* did not, and the number remote held and local did not, before any copy.
C2_SyncCounts ==
    [][last'.op = "sync" =>
        LET before_l == Uuids(db[last'.p].rows)
            before_r == Uuids(db[last'.q].rows)
        IN  last'.ret = << Cardinality(before_l \ before_r),
                           Cardinality(before_r \ before_l) >>]_vars

\* a sync has returned (2, 0): two entries pushed to a remote that had neither
C2_Witness ==
    /\ last.op = "sync"
    /\ last.ret = <<2, 0>>
    /\ Cardinality(db[last.q].rows) = 2

\* C3: a second sync(local, remote) right after a completed one returns
\* (0, 0) and changes no entry on either side.
C3_SyncIdempotent ==
    [][(last.op = "sync" /\ last'.op = "sync"
        /\ last'.p = last.p /\ last'.q = last.q)
       => (last'.ret = <<0, 0>> /\ db' = db)]_vars

\* the second of two syncs in a row, the first of which pushed one entry and
\* pulled another
C3_Witness ==
    /\ last.op = "sync"
    /\ last.prior = <<1, 1>>
    /\ last.ret = <<0, 0>>
    /\ last.p # last.q

\* C4: every entry sync copies into a destination has the id, the content
\* and the created_at of the source entry.
C4_CopyKeepsProvenance ==
    [][last'.op = "sync" =>
        LET l == last'.p
            r == last'.q
        IN  /\ \A x \in db'[r].rows :
                 x.uuid \notin Uuids(db[r].rows) =>
                    \E y \in db[l].rows :
                        /\ y.uuid = x.uuid
                        /\ y.content = x.content
                        /\ y.created_at = x.created_at
            /\ \A x \in db'[l].rows :
                 x.uuid \notin Uuids(db[l].rows) =>
                    \E y \in db[r].rows :
                        /\ y.uuid = x.uuid
                        /\ y.content = x.content
                        /\ y.created_at = x.created_at]_vars

\* a sync has pulled into local an entry created at time 1 with blank content
\* edited in, whose copy keeps both
C4_Witness ==
    /\ last.op = "sync"
    /\ last.ret[2] = 1
    /\ \E x \in db[last.p].rows, y \in db[last.q].rows :
          /\ x.uuid = y.uuid
          /\ x.created_at = 1 /\ y.created_at = 1
          /\ x.content = <<" ">> /\ y.content = <<" ">>

\* C5: a delete is not remembered by sync: the delete removes nothing from the
\* other replica, and when the sync that follows it runs between the deleting
\* replica and one that still holds the entry, the entry is copied back with
\* the holder's content and created_at.
C5_DeleteNotRemembered ==
    [][/\ last'.op = "delete_by_id" =>
            \A q \in Paths \ {last'.p} : db'[q] = db[q]
       /\ (/\ last.op = "delete_by_id"
           /\ last'.op = "sync"
           /\ last'.p # last'.q
           /\ last.p \in {last'.p, last'.q}) =>
            LET holder == CHOOSE h \in {last'.p, last'.q} : h # last.p
            IN  \A y \in db[holder].rows :
                    y.uuid \in last.gone =>
                        \E x \in db'[last.p].rows :
                            /\ x.uuid = y.uuid
                            /\ x.content = y.content
                            /\ x.created_at = y.created_at]_vars

\* a sync has copied back an entry that the call before it deleted
C5_Witness ==
    /\ last.op = "sync"
    /\ last.back # {}

\* C6: sync leaves every entry that existed before the call as it was, on
\* both sides, and every entry it adds is a copy of an entry the peer held
\* before the call.
C6_SyncFrame ==
    [][last'.op = "sync" =>
        \A side \in {<<last'.p, last'.q>>, <<last'.q, last'.p>>} :
            LET mine == side[1]
                peer == side[2]
            IN  /\ db[mine].rows \subseteq db'[mine].rows
                /\ \A n \in db'[mine].rows \ db[mine].rows :
                      <<n.uuid, n.content, n.created_at>> \in Entries(db[peer].rows)]_vars

\* a sync has pushed one entry into a remote that already held another
C6_Witness ==
    /\ last.op = "sync"
    /\ last.ret = <<1, 0>>
    /\ last.p # last.q
    /\ Cardinality(db[last.q].rows) = 2

\* C7: in every reachable state no two entries of a repository share an id;
\* an id is given to an entry once, when it is created: a new entry's id was
\* never drawn before, and a row keeps its id as long as it exists.
C7_IdsUnique ==
    /\ [](\A p \in Paths : UniqueIds(db[p].rows))
    /\ [][/\ last'.op \in {"store", "repl", "import_entries"} =>
                \A n \in db'[last'.p].rows \ db[last'.p].rows :
                    /\ n.uuid >= nextUuid
                    /\ \A q \in Paths : n.uuid \notin Uuids(db[q].rows)
          /\ \A p \in Paths :
                \A r \in db[p].rows, n \in db'[p].rows :
                    r.rowid = n.rowid => r.uuid = n.uuid]_vars

\* both repositories hold two entries after a sync that copied back a
\* deleted one
C7_Witness ==
    /\ last.op = "sync"
    /\ last.back # {}
    /\ \A p \in Paths : Cardinality(db[p].rows) = 2

\* C8: create with content that is empty after trimming fails with
\* InvalidInput and stores nothing.
C8_BlankCreateRejected ==
    [][(last'.op = "store" /\ strip(last'.text) = <<>>) =>
        /\ last'.raised = "InvalidInput"
        /\ count(db'[last'.p].rows) = count(db[last'.p].rows)]_vars

\* C9: update and delete of a handle that is not in the repository fail with
\* NotFound and leave the repository unchanged.
C9_MissingHandleNotFound ==
    [][(/\ last'.op \in {"delete_by_id", "update_entry"}
        /\ last'.rowid \notin Rowids(db[last'.p].rows)) =>
        /\ last'.raised = "NotFound"
        /\ db' = db]_vars

\* C10: update of an existing entry replaces that entry's content and
\* nothing else: its id and created_at stay, and so does every other entry.
C10_UpdateOnlyContent ==
    [][(/\ last'.op = "update_entry"
        /\ last'.rowid \in Rowids(db[last'.p].rows)) =>
        LET p == last'.p
        IN  /\ \A q \in Paths \ {p} : db'[q] = db[q]
            /\ Cardinality(db'[p].rows) = Cardinality(db[p].rows)
            /\ \A r \in db[p].rows :
                  \E n \in db'[p].rows :
                      /\ n.rowid = r.rowid
                      /\ n.uuid = r.uuid
                      /\ n.created_at = r.created_at
                      /\ n.content = IF r.rowid = last'.rowid
                                     THEN last'.text ELSE r.content]_vars

\* an update has set the content of one of two entries of a repository
C10_Witness ==
    /\ last.op = "update_entry"
    /\ \E x, y \in db[last.p].rows :
          /\ x.rowid = last.rowid
          /\ x.content = last.text
          /\ y.rowid # last.rowid
          /\ y.content # last.text

C12_CompletedCopiesDurable ==
    [][(last'.op = "sync" /\ last'.at \in {"push", "pull"})
          => /\ last'.done[1] \subseteq Uuids(db'[last'.q].rows)
             /\ last'.done[2] \subseteq Uuids(db'[last'.p].rows)]_vars

\* C17: no sync leaves the connection it opened on the remote path unclosed,
\* whether it returned or raised
C17_RemoteHandleReleased ==
    \A r \in Remotes : handle[r] = "closed"

\* C20: when a sync raises in its pull phase, the push is committed: remote
\* holds the ids of both snapshots; to_push and to_pull are those of the
\* snapshots taken before any copy; and the committed rows of local are
\* unchanged, its executed pull INSERTs being uncommitted
C20_PushCommittedBeforePull ==
    [][(last'.op = "sync" /\ last'.at = "pull")
          => LET l == last'.p
                 r == last'.q
                 local_uuids == Uuids(View(l))
                 remote_uuids == Uuids(init_db(db[r], nextUuid).rows)
             IN  /\ last'.done[1] = local_uuids \ remote_uuids
                 /\ last'.done[2] \subseteq remote_uuids \ local_uuids
                 /\ Uuids(db'[r].rows) = local_uuids \cup remote_uuids
                 /\ UniqueIds(db'[r].rows)
                 /\ db'[l] = db[l]
                 /\ Uuids(pend'[l]) = Uuids(pend[l]) \cup last'.done[2]]_vars

\* a sync that pushed an entry has raised after executing a pull INSERT
C20_Witness ==
    /\ last.op = "sync"
    /\ last.at = "pull"
    /\ last.done[1] # {}
    /\ last.done[2] # {}
    /\ last.done[1] \subseteq Uuids(db[last.q].rows)
    /\ last.done[2] \subseteq Uuids(pend[last.p])

\* the rows of a table that carry the id u
Holding(rows, u) == { r \in rows : r.uuid = u }

\* C18: a sync that returns leaves the rows of every id both sides held as
\* they were, on both sides, whether their contents agree or not, and counts
\* in pushed and pulled only the ids one side lacked
C18_SharedIdUntouched ==
    [][(last'.op = "sync" /\ last'.raised = "none")
          => LET l == last'.p
                 r == last'.q
                 remote0 == init_db(db[r], nextUuid).rows
                 local_uuids == Uuids(View(l))
                 remote_uuids == Uuids(remote0)
             IN  /\ \A u \in local_uuids \cap remote_uuids :
                        /\ Holding(db'[l].rows, u) = Holding(View(l), u)
                        /\ Holding(db'[r].rows, u) = Holding(remote0, u)
                 /\ last'.ret = <<Cardinality(local_uuids \ remote_uuids),
                                  Cardinality(remote_uuids \ local_uuids)>>
                 /\ Uuids(db'[l].rows) = Uuids(db'[r].rows)]_vars

\* a sync between two databases has returned, and an id is held by both
\* with different content
C18_Witness ==
    /\ last.op = "sync"
    /\ last.raised = "none"
    /\ last.p # last.q
    /\ \E r1 \in db[last.p].rows, r2 \in db[last.q].rows :
          r1.uuid = r2.uuid /\ r1.content # r2.content

\* C16: no stored entry has empty content
C16_NoEmptyContent ==
    \A p \in Paths : \A r \in db[p].rows : r.content # <<>>

\* the rows of a table that carry the content and created_at of row r
Alike(rows, r) == { x \in rows : x.content = r.content /\ x.created_at = r.created_at }

\* C15: a step that opens a legacy database, init_db of run_repl or of sync on
\* its remote, gives each of its rows one freshly drawn uuid, unique in the
\* table, and keeps each content and created_at as many times as it was held;
\* an init_db leaves the table with exactly these rows, a sync has also
\* copied every one of them to local; a step that opens a database with the
\* uuid column draws no uuid and changes none of its rows
C15_LegacyUpgrade ==
    [][(last'.op \in {"init_db", "sync"} /\ last'.raised = "none")
          => LET q == last'.q
                 old == db[q].rows
                 upgraded == { r \in db'[q].rows : r.uuid \in nextUuid..(nextUuid' - 1) }
             IN  IF db[q].schema = "legacy"
                 THEN /\ db'[q].schema = "uuid"
                      /\ Cardinality(upgraded) = Cardinality(old)
                      /\ nextUuid' - nextUuid = Cardinality(old)
                      /\ \A r \in old :
                            Cardinality(Alike(upgraded, r)) = Cardinality(Alike(old, r))
                      /\ UniqueIds(db'[q].rows)
                      /\ last'.op = "init_db" => db'[q].rows = upgraded
                      /\ last'.op = "sync" =>
                            /\ last'.ret[2] = Cardinality(old)
                            /\ Entries(upgraded) \subseteq Entries(db'[last'.p].rows)
                            /\ Cardinality(db'[q].rows) = Cardinality(old) + last'.ret[1]
                 ELSE /\ nextUuid' = nextUuid
                      /\ db[q].rows \subseteq db'[q].rows
                      /\ last'.op = "init_db" => db'[q].rows = db[q].rows]_vars

\* a legacy database holding the same content and created_at twice has been
\* opened: its two entries differ in uuid alone
C15_Witness ==
    /\ last.op = "init_db"
    /\ \E r1, r2 \in db[last.p].rows :
          /\ r1.uuid # r2.uuid
          /\ r1.content = r2.content
          /\ r1.created_at = r2.created_at
          /\ Cardinality(db[last.p].rows) = 2
          /\ nextUuid = 3

\* s is the content of some token of the text
HasToken(text, s) == \E k \in 1..Len(Tokens(text)) : Tokens(text)[k] = s

\* s is a prefix of some token of the text
HasTokenStarting(text, s) == \E k \in 1..Len(Tokens(text)) : IsPrefix(s, Tokens(text)[k])

\* C13, as stated: find returns an entry for a term ending in "$" iff the
\* term without that "$" is a token of the content, and for any other term
\* iff the term is a prefix of a token of the content
C13_TermRule ==
    [][(last'.op = "find" /\ last'.raised = "none")
          => LET term == last'.text[1]
             IN  \A r \in View(last'.p) :
                    <<r.rowid, r.content>> \in last'.ret
                    <=> IF endswith_dollar(term)
                        THEN HasToken(r.content, SubSeq(term, 1, Len(term) - 1))
                        ELSE HasTokenStarting(r.content, term)]_vars

\* a word: letters and digits, at least one
IsWord(s) == s # <<>> /\ \A i \in 1..Len(s) : IsAlnum(s[i])

Lower(s) == [i \in 1..Len(s) |-> Fold(s[i])]

\* C13, amended: for a term that is a word, or a word followed by "$"s,
\* find returns an entry iff, case being ignored, the word is a token of the
\* content (term ending in "$") or a prefix of a token of the content (other
\* term)
C13_WordTermRule ==
    [][(last'.op = "find" /\ IsWord(rstrip_dollar(last'.text[1])))
          => LET term == last'.text[1]
                 word == Lower(rstrip_dollar(term))
             IN  /\ last'.raised = "none"
                 /\ \A r \in View(last'.p) :
                       <<r.rowid, r.content>> \in last'.ret
                       <=> IF endswith_dollar(term)
                           THEN HasToken(r.content, word)
                           ELSE HasTokenStarting(r.content, word)]_vars

\* an exact term in upper case has found the entry holding its word as a token
C13_Witness ==
    /\ last.op = "find"
    /\ last.text = << <<"A", "$">> >>
    /\ \E r \in db[last.p].rows :
          /\ r.content = <<"b", " ", "a">>
          /\ <<r.rowid, r.content>> \in last.ret

\* C14: find_all returns exactly the entries that find returns for every
\* one of the terms
C14_ConjunctionOfTerms ==
    [][(last'.op = "find_all" /\ last'.raised = "none")
          => \A r \in View(last'.p) :
                <<r.rowid, r.content>> \in last'.ret
                <=> \A i \in 1..Len(last'.text) :
                       <<r.rowid, r.content>> \in find(View(last'.p), last'.text[i], TRUE)]_vars

\* the query of the search made last
LastQuery ==
    IF last.op = "find" THEN find_query(last.text[1], TRUE)
    ELSE find_all_query(last.text, TRUE)

\* C19, as stated: the query of every search is well formed and holds one
\* phrase per term, whose text is the term, without its last character when
\* the term ends in "$"; it is a prefix phrase unless the term ends in "$"
C19_PhrasePerTerm ==
    last.op \in {"find", "find_all"}
    => /\ last.raised = "none"
       /\ Fts5Parse(LastQuery).ok
       /\ Len(Fts5Parse(LastQuery).phrases) = Len(last.text)
       /\ \A i \in 1..Len(last.text) :
             LET t == last.text[i]
                 phrase == Fts5Parse(LastQuery).phrases[i]
             IN  /\ phrase.text = IF endswith_dollar(t) THEN SubSeq(t, 1, Len(t) - 1) ELSE t
                 /\ phrase.prefix = ~endswith_dollar(t)

\* C19, amended: the text of the phrase is the term without all the "$" at
\* its end
C19_PhrasePerTermStripped ==
    last.op \in {"find", "find_all"}
    => /\ last.raised = "none"
       /\ Fts5Parse(LastQuery).ok
       /\ Len(Fts5Parse(LastQuery).phrases) = Len(last.text)
       /\ \A i \in 1..Len(last.text) :
             LET t == last.text[i]
                 phrase == Fts5Parse(LastQuery).phrases[i]
             IN  /\ phrase.text = rstrip_dollar(t)
                 /\ phrase.prefix = ~endswith_dollar(t)

\* a search for a term holding a quote and ending in two "$" has returned
C19_Witness ==
    /\ last.op = "find"
    /\ last.text = << <<"\"", "$", "$">> >>
    /\ last.raised = "none"
    /\ LastQuery = <<"\"", "\"", "\"", "\"">>

====
